---- MODULE Spec2Model ----
(***************************************************************************)
(* A model of the schema-designer backend (src/index.js): the startup     *)
(* code, the chat endpoint with its clarify/generate policy and prompt     *)
(* assembly, the project store endpoints over a MongoDB collection, and    *)
(* the status endpoint.                                                    *)
(*                                                                         *)
(* Text is modelled as a sequence of tokens; a token is a line break, a    *)
(* role word, the separator ": " or a piece of ordinary text.              *)
(* Timestamps are readings of a non-decreasing clock.                      *)
(***************************************************************************)
EXTENDS Integers, Sequences, FiniteSets, TLC

\* ------------------------------------------------------------------ bounds

\* Largest total size of a chat request: one per turn plus one per content token.
MaxPromptSize == 5
\* Largest clock reading.
MaxClock == 1
\* Largest number of create and update requests the server accepts in a run.
MaxRequests == 3

\* ------------------------------------------------------------------ values

NL == "\n"
Sep == ": "
Roles == {"user", "assistant", "system"}
Chars == {NL, "user", Sep}

\* Two of the ids nanoid() can return; the handlers only compare ids.
Ids == {"V1StGXR8", "Uakgb_J5"}
NoId == ""
Times == 0..MaxClock

\* The request bodies of POST and PUT /api/projects; the handlers store the
\* values without looking into them.
CreateBodies ==
  { [name |-> "Blog", schema |-> "{}", schemaType |-> "mongodb",
     conversation |-> <<[role |-> "user", content |-> <<"user">>]>>] }

UpdateBodies ==
  { [name |-> "Blog2", schema |-> "{x:1}"],
    [name |-> "Blog3", schema |-> "{y:2}"] }

ModelTexts == {<<"reply">>}

NoResp == [op |-> "none", id |-> NoId, status |-> 0, body |-> <<>>, calls |-> <<>>]

VARIABLES
  pc,           \* "boot" until startServer has run, then "listening"
  keySet,       \* process.env.GEMINI_API_KEY is set
  uriSet,       \* process.env.MONGODB_URI is set
  genAI,        \* the Gemini client object exists
  db,           \* the db handle is set
  uniqueIndex,  \* the unique index on projects.id exists
  clock,        \* the wall clock
  projects,     \* the projects collection, in insertion order
  pending,      \* create/update requests suspended at their awaited store call
  messages,     \* the conversation the chat client holds
  resp,         \* the response sent by the latest step (NoResp if none)
  received,     \* the number of create and update requests accepted so far
  writes        \* history, per document: the create request that inserted it,
                \* the (name, schema, now) of the request last applied to it,
                \* and whether an update of its id was applied since

vars == <<pc, keySet, uriSet, genAI, db, uniqueIndex, clock, projects,
          pending, messages, resp, writes, received>>

envVars == <<keySet, uriSet>>
bootVars == <<pc, genAI, db, uniqueIndex>>
storeVars == <<projects, writes>>

\* ------------------------------------------------------------ chat: policy

\* messages.filter((m) => m.role === "user")
userMessages(msgs) == SelectSeq(msgs, LAMBDA m : m.role = "user")

\* A variant that counts every turn, whatever its role.
shouldGenerateSchema_AllTurns(msgs) == Len(msgs) >= 3

shouldGenerateSchema(msgs) == Len(userMessages(msgs)) >= 3

ClarifyPrompt ==
  <<"You are a helpful database design assistant.", NL,
    "Focus on understanding:", NL,
    "Ask one question at a time.">>

GeneratePrompt ==
  <<"You are a helpful MongoDB database design assistant.", NL,
    "Generate a MongoDB schema using JSON format.", NL,
    "Format the schema in a code block.">>

systemPrompt(msgs) ==
  IF shouldGenerateSchema(msgs) THEN GeneratePrompt ELSE ClarifyPrompt

\* ---------------------------------------------------- chat: prompt assembly

\* A variant that puts the instruction after the caller's turns.
combinedMessages_SystemLast(msgs) ==
  msgs \o <<[role |-> "system", content |-> systemPrompt(msgs)]>>

combinedMessages(msgs) ==
  <<[role |-> "system", content |-> systemPrompt(msgs)]>> \o msgs

\* `${msg.role}: ${msg.content}`
FormatTurn(msg) == <<msg.role, Sep>> \o msg.content

RECURSIVE JoinLines(_)
JoinLines(lines) ==
  IF Len(lines) = 0 THEN <<>>
  ELSE IF Len(lines) = 1 THEN lines[1]
  ELSE lines[1] \o <<NL>> \o JoinLines(Tail(lines))

BuildPrompt(msgs) ==
  JoinLines([i \in 1..Len(combinedMessages(msgs)) |->
               FormatTurn(combinedMessages(msgs)[i])])

\* The checks made before the try block: which 500 is sent, or "ok".
ChatGuard(key, client) ==
  IF ~key THEN "nokey" ELSE IF ~client THEN "noclient" ELSE "ok"


\* ------------------------------------------------------------------ startup

\* Lines 59-71: the client exists iff the key is set and the constructor returned.
InitGenAI(key, ctorOk) == key /\ ctorOk

\* connectToMongoDB, lines 36-46: db is assigned once client.connect() resolved.
ConnectDb(uri, connectOk) == uri /\ connectOk

\* connectToMongoDB, line 50: the index exists once createIndex resolved.
ConnectIndex(uri, connectOk, indexOk) == uri /\ connectOk /\ indexOk

Init ==
  /\ pc = "boot"
  /\ keySet \in BOOLEAN
  /\ uriSet \in BOOLEAN
  /\ genAI = FALSE
  /\ db = FALSE
  /\ uniqueIndex = FALSE
  /\ clock = 0
  /\ projects = <<>>
  /\ pending = {}
  /\ messages = <<>>
  /\ resp = NoResp
  /\ writes = <<>>
  /\ received = 0

\* Module load and startServer(): the server listens whatever the outcome.
StartServer ==
  /\ pc = "boot"
  /\ \E ctorOk \in BOOLEAN, connectOk \in BOOLEAN, indexOk \in BOOLEAN :
       /\ genAI' = InitGenAI(keySet, ctorOk)
       /\ db' = ConnectDb(uriSet, connectOk)
       /\ uniqueIndex' = ConnectIndex(uriSet, connectOk, indexOk)
  /\ pc' = "listening"
  /\ UNCHANGED <<envVars, clock, projects, pending, messages, resp, writes,
                 received>>

\* -------------------------------------------------------------- environment

Tick ==
  /\ pc = "listening"
  /\ clock < MaxClock
  /\ clock' = clock + 1
  /\ resp' = NoResp
  /\ UNCHANGED <<envVars, bootVars, storeVars, pending, messages, received>>

RECURSIVE SeqsUpTo(_, _)
SeqsUpTo(S, n) ==
  IF n <= 0 THEN {<<>>}
  ELSE LET P == SeqsUpTo(S, n - 1) IN P \cup {Append(s, c) : s \in P, c \in S}

RECURSIVE PromptSize(_)
PromptSize(msgs) ==
  IF Len(msgs) = 0 THEN 0
  ELSE 1 + Len(msgs[1].content) + PromptSize(Tail(msgs))

\* The chat client adds a turn to the conversation it will send next.
Extend ==
  /\ pc = "listening"
  /\ PromptSize(messages) < MaxPromptSize
  /\ \E role \in Roles,
        content \in SeqsUpTo(Chars, MaxPromptSize - 1 - PromptSize(messages)) :
       messages' = Append(messages, [role |-> role, content |-> content])
  /\ resp' = NoResp
  /\ UNCHANGED <<envVars, bootVars, clock, storeVars, pending, received>>

\* An awaited call on an external service: it resolves (ok) or rejects.
ExternalCall(fn, arg, ok) == [fn |-> fn, arg |-> arg, ok |-> ok]

\* ------------------------------------------------------------ POST /api/chat

Chat ==
  /\ pc = "listening"
  /\ LET g == ChatGuard(keySet, genAI) IN
       IF g = "nokey" THEN
         resp' = [op |-> "chat", id |-> NoId, status |-> 500,
                  body |-> [error |-> "Gemini API key is missing"],
                  calls |-> <<>>]
       ELSE IF g = "noclient" THEN
         resp' = [op |-> "chat", id |-> NoId, status |-> 500,
                  body |-> [error |-> "Gemini client is not initialized"],
                  calls |-> <<>>]
       ELSE
         \E answered \in BOOLEAN, text \in ModelTexts :
           LET call == ExternalCall("generateContent", BuildPrompt(messages), answered) IN
             resp' = IF answered
                     THEN [op |-> "chat", id |-> NoId, status |-> 200,
                           body |-> [content |-> text, role |-> "assistant"],
                           calls |-> <<call>>]
                     ELSE [op |-> "chat", id |-> NoId, status |-> 500,
                           body |-> [error |-> "upstream"],
                           calls |-> <<call>>]
  /\ UNCHANGED <<envVars, bootVars, clock, storeVars, pending, messages,
                 received>>

\* ----------------------------------------------------------- GET /api/status

\* A variant that reports the handle alone, without the ping's outcome.
StatusBody_HandleOnly(key, handle, pingOk) ==
  [server |-> TRUE, gemini |-> key, database |-> handle]

\* Lines 75-89: the flags; the ping is sent only when the handle is set.
StatusBody(key, handle, pingOk) ==
  [server |-> TRUE,
   gemini |-> key,
   database |-> IF handle THEN pingOk ELSE FALSE]

Status ==
  /\ pc = "listening"
  /\ \E ok \in BOOLEAN :
       resp' = [op |-> "status", id |-> NoId, status |-> 200,
                body |-> StatusBody(keySet, db, ok),
                calls |-> IF db THEN <<ExternalCall("ping", 1, ok)>> ELSE <<>>]
  /\ UNCHANGED <<envVars, bootVars, clock, storeVars, pending, messages,
                 received>>

\* ---------------------------------------------------- the projects collection

\* A variant that matches the first document whatever its id.
FindIndex_AnyId(coll, id) == IF Len(coll) > 0 THEN 1 ELSE 0

\* The position of the first document whose id field equals id, 0 if none:
\* the document findOne({ id }) returns and updateOne({ id }, ...) modifies.
FindIndex(coll, id) ==
  IF \E k \in 1..Len(coll) : coll[k].id = id
  THEN CHOOSE k \in 1..Len(coll) :
         /\ coll[k].id = id
         /\ \A j \in 1..(k - 1) : coll[j].id # id
  ELSE 0

\* insertOne rejects the document when the unique index exists and the id is taken.
DuplicateKey(coll, id, index) == index /\ FindIndex(coll, id) # 0

\* const project = { id, name, schema, schemaType, conversation, createdAt, updatedAt }
\* and the _id the store adds on insert.
NewProject(id, body, now, oid) ==
  [oid |-> oid, id |-> id, name |-> body.name, schema |-> body.schema,
   schemaType |-> body.schemaType, conversation |-> body.conversation,
   createdAt |-> now, updatedAt |-> now]

\* A variant that replaces the document instead of setting three fields.
UpdateSet_Replace(doc, body, now) ==
  [doc EXCEPT !.name = body.name, !.schema = body.schema, !.updatedAt = now,
              !.schemaType = "", !.conversation = <<>>]

\* A variant that writes the schema in a second, later store call.
UpdateSet_NameFirst(doc, body, now) ==
  [doc EXCEPT !.name = body.name, !.updatedAt = now]

\* A variant that leaves updatedAt as it was.
UpdateSet_StaleStamp(doc, body, now) ==
  [doc EXCEPT !.name = body.name, !.schema = body.schema]

\* $set: { name, schema, updatedAt: now }
UpdateSet(doc, body, now) ==
  [doc EXCEPT !.name = body.name, !.schema = body.schema, !.updatedAt = now]

\* The JSON view GET /api/projects/:id sends.
ProjectView(project) ==
  [id |-> project.id, name |-> project.name, schema |-> project.schema,
   schemaType |-> project.schemaType, conversation |-> project.conversation,
   createdAt |-> project.createdAt, updatedAt |-> project.updatedAt]

\* A variant without the guard.
DbUnavailable_Never(handle) == FALSE

\* if (!db) return res.status(500)
DbUnavailable(handle) == ~handle

Unavailable(op, id) ==
  [op |-> op, id |-> id, status |-> 500,
   body |-> [error |-> "Database connection not available"], calls |-> <<>>]

\* ---------------------------------------------------- GET /api/projects/:id

GetProject(id) ==
  /\ pc = "listening"
  /\ \E ok \in BOOLEAN :
       LET call == <<ExternalCall("findOne", id, ok)>> IN
       resp' =
         IF DbUnavailable(db) THEN Unavailable("read", id)
         ELSE IF ~ok THEN
           [op |-> "read", id |-> id, status |-> 500,
            body |-> [error |-> "Failed to fetch project"], calls |-> call]
         ELSE IF FindIndex(projects, id) = 0 THEN
           [op |-> "read", id |-> id, status |-> 404,
            body |-> [error |-> "Project not found"], calls |-> call]
         ELSE
           [op |-> "read", id |-> id, status |-> 200,
            body |-> ProjectView(projects[FindIndex(projects, id)]),
            calls |-> call]
  /\ UNCHANGED <<envVars, bootVars, clock, storeVars, pending, messages,
                 received>>

\* ------------------------------------------------------- POST /api/projects

\* Lines 204-221: the guard, then the id is minted and the time read, and the
\* handler suspends at await insertOne.
CreateRecv(body) ==
  /\ pc = "listening"
  /\ IF DbUnavailable(db) THEN
       /\ resp' = Unavailable("create", NoId)
       /\ UNCHANGED <<pending, received>>
     ELSE
       /\ received < MaxRequests
       /\ \E id \in Ids :
            pending' = pending \cup
              {[op |-> "create", id |-> id, body |-> body, now |-> clock]}
       /\ resp' = NoResp
       /\ received' = received + 1
  /\ UNCHANGED <<envVars, bootVars, clock, storeVars, messages>>

\* Lines 223-229: insertOne settles and the response is sent.
CreateApply(r) ==
  /\ pc = "listening"
  /\ r \in pending /\ r.op = "create"
  /\ pending' = pending \ {r}
  /\ \E up \in BOOLEAN :
       LET ok == up /\ ~DuplicateKey(projects, r.id, uniqueIndex)
           call == <<ExternalCall("insertOne", r.id, ok)>> IN
       IF ~ok THEN
         /\ resp' = [op |-> "create", id |-> r.id, status |-> 500,
                     body |-> [error |-> "Failed to create project"],
                     calls |-> call]
         /\ UNCHANGED storeVars
       ELSE
         /\ projects' = Append(projects,
                               NewProject(r.id, r.body, r.now, Len(projects) + 1))
         /\ writes' = Append(writes,
                             [create |-> r,
                              last |-> [name |-> r.body.name,
                                        schema |-> r.body.schema, now |-> r.now],
                              updated |-> FALSE])
         /\ resp' = [op |-> "create", id |-> r.id, status |-> 201,
                     body |-> [id |-> r.id], calls |-> call]
  /\ UNCHANGED <<envVars, bootVars, clock, messages, received>>

\* -------------------------------------------------- PUT /api/projects/:id

\* Lines 234-241: the guard, then the time is read and the handler suspends at
\* await updateOne.
UpdateRecv(id, body) ==
  /\ pc = "listening"
  /\ IF DbUnavailable(db) THEN
       /\ resp' = Unavailable("update", id)
       /\ UNCHANGED <<pending, received>>
     ELSE
       /\ received < MaxRequests
       /\ pending' = pending \cup
            {[op |-> "update", id |-> id, body |-> body, now |-> clock]}
       /\ resp' = NoResp
       /\ received' = received + 1
  /\ UNCHANGED <<envVars, bootVars, clock, storeVars, messages>>

\* Lines 243-262: updateOne settles and the response is sent.
UpdateApply(r) ==
  /\ pc = "listening"
  /\ r \in pending /\ r.op = "update"
  /\ pending' = pending \ {r}
  /\ \E ok \in BOOLEAN :
       LET k == FindIndex(projects, r.id)
           call == <<ExternalCall("updateOne", r.id, ok)>> IN
       IF ~ok THEN
         /\ resp' = [op |-> "update", id |-> r.id, status |-> 500,
                     body |-> [error |-> "Failed to update project"],
                     calls |-> call]
         /\ UNCHANGED storeVars
       ELSE IF k = 0 THEN
         /\ resp' = [op |-> "update", id |-> r.id, status |-> 404,
                     body |-> [error |-> "Project not found"], calls |-> call]
         /\ UNCHANGED storeVars
       ELSE
         /\ projects' = [projects EXCEPT ![k] = UpdateSet(@, r.body, r.now)]
         /\ writes' = [j \in 1..Len(writes) |->
                         [create |-> writes[j].create,
                          last |-> IF j = k
                                   THEN [name |-> r.body.name,
                                         schema |-> r.body.schema,
                                         now |-> r.now]
                                   ELSE writes[j].last,
                          updated |-> writes[j].updated
                                        \/ writes[j].create.id = r.id]]
         /\ resp' = [op |-> "update", id |-> r.id, status |-> 200,
                     body |-> [success |-> TRUE], calls |-> call]
  /\ UNCHANGED <<envVars, bootVars, clock, messages, received>>

\* ------------------------------------------------------------ specifications

Next ==
  \/ StartServer
  \/ Tick
  \/ Chat
  \/ Status
  \/ \E id \in Ids : GetProject(id)
  \/ \E body \in CreateBodies : CreateRecv(body)
  \/ \E r \in pending : CreateApply(r)
  \/ \E id \in Ids, body \in UpdateBodies : UpdateRecv(id, body)
  \/ \E r \in pending : UpdateApply(r)

\* The whole server, the chat client sending the empty conversation.
Spec == Init /\ [][Next]_vars

NextChat ==
  \/ StartServer
  \/ Extend
  \/ Chat

\* The chat endpoint under every conversation within MaxPromptSize.
SpecChat == Init /\ [][NextChat]_vars

NextWrites ==
  \/ StartServer
  \/ Tick
  \/ \E body \in CreateBodies : CreateRecv(body)
  \/ \E r \in pending : CreateApply(r)
  \/ \E id \in Ids, body \in UpdateBodies : UpdateRecv(id, body)
  \/ \E r \in pending : UpdateApply(r)

\* The server under create and update requests alone: the handlers that
\* write to the collection (the others change nothing but resp).
SpecWrites == Init /\ [][NextWrites]_vars


\* ------------------------------------------------ properties: chat endpoint

\* The prompt handed to generateContent by the latest step, if it was a chat
\* request that reached the model call.
ChatCalled == resp.op = "chat" /\ Len(resp.calls) = 1
SentPrompt == resp.calls[1].arg

UserCount(msgs) == Cardinality({i \in 1..Len(msgs) : msgs[i].role = "user"})

\* The instruction text at the head of a prompt, after "system: ".
InstructionOf(prompt) == SubSeq(prompt, 3, 2 + Len(ClarifyPrompt))

\* C1: the instruction sent is the GENERATE one iff the request holds at least
\* three turns of role "user", and the CLARIFY one otherwise, whatever the
\* other turns, their order and the requests handled before.
C1_PolicyThreshold ==
  ChatCalled =>
    /\ UserCount(messages) >= 3 => InstructionOf(SentPrompt) = GeneratePrompt
    /\ UserCount(messages) < 3 => InstructionOf(SentPrompt) = ClarifyPrompt

\* C1 witness: a request of three user turns and an assistant turn reached
\* the model.
C1_Witness ==
  /\ ChatCalled
  /\ UserCount(messages) = 3
  /\ Len(messages) = 4
  /\ messages[1].role = "assistant"

\* The positions of a prompt where a turn starts: a role word followed by
\* ": ", at the head of the prompt or right after a line break.
TurnStarts(prompt) ==
  {i \in 1..(Len(prompt) - 1) :
     /\ prompt[i] \in Roles
     /\ prompt[i + 1] = Sep
     /\ (i = 1 \/ prompt[i - 1] = NL)}

\* The prompt split back into turns at its role markers.
SplitPrompt(prompt) ==
  LET starts == TurnStarts(prompt)
      n == Cardinality(starts)
      \* the j-th start, in increasing order
      nth(j) == CHOOSE i \in starts : Cardinality({x \in starts : x < i}) = j - 1
      endOf(j) == IF j = n THEN Len(prompt) ELSE nth(j + 1) - 2
  IN [j \in 1..n |->
        [role |-> prompt[nth(j)],
         content |-> SubSeq(prompt, nth(j) + 2, endOf(j))]]

\* The turns recovered from a prompt, the leading instruction left out.
RecoveredTurns(prompt) ==
  IF Len(SplitPrompt(prompt)) = 0 THEN <<>> ELSE Tail(SplitPrompt(prompt))

\* A content holds a role marker: a line break, a role word and ": " in a row.
HasMarker(content) ==
  \E i \in 1..(Len(content) - 2) :
    content[i] = NL /\ content[i + 1] \in Roles /\ content[i + 2] = Sep

\* C2 as stated: splitting the prompt at its role markers gives back the
\* caller's turns, for every turn sequence.
C2_RoundTripAll ==
  ChatCalled => RecoveredTurns(SentPrompt) = messages

\* C2 amended: splitting the prompt at its role markers gives back the
\* caller's turns, in order, when no turn's content itself holds a line break
\* followed by a role marker.
C2_RoundTripNoMarker ==
  (ChatCalled /\ \A i \in 1..Len(messages) : ~HasMarker(messages[i].content))
    => RecoveredTurns(SentPrompt) = messages

\* C2 witness: two turns, one of them with a multi-line content, were
\* flattened and sent.
C2_Witness ==
  /\ ChatCalled
  /\ Len(messages) = 2
  /\ \A i \in 1..2 : ~HasMarker(messages[i].content)
  /\ \E i \in 1..Len(messages[1].content) : messages[1].content[i] = NL
  /\ messages[1].role # messages[2].role


\* ----------------------------------------------- properties: project store

Docs == 1..Len(projects)

\* The ids returned by successful creates, and the ids in the collection.
Created == {writes[k].create.id : k \in 1..Len(writes)}
StoredIds == {projects[k].id : k \in Docs}

\* The latest step was a project request whose store call resolved.
StoreAnswered == Len(resp.calls) = 1 /\ resp.calls[1].ok

\* What a read must send for the create request c, at some timestamp.
SubmittedView(c, body) ==
  /\ body.id = c.id
  /\ body.name = c.body.name
  /\ body.schema = c.body.schema
  /\ body.schemaType = c.body.schemaType
  /\ body.conversation = c.body.conversation
  /\ body.createdAt \in Times
  /\ body.updatedAt = body.createdAt

\* C3: a read of an id that a successful create returned, with no update of
\* that id applied since, answers 200 with exactly the submitted name, schema,
\* schemaType and conversation, the id, and equal createdAt and updatedAt.
C3_CreateThenRead ==
  \A k \in Docs :
    (/\ resp.op = "read"
     /\ StoreAnswered
     /\ resp.id = writes[k].create.id
     /\ ~writes[k].updated)
    => (resp.status = 200 /\ SubmittedView(writes[k].create, resp.body))

\* C4: a successful update replaces name and schema and refreshes updatedAt of
\* the project with that id, and leaves its id, schemaType, conversation and
\* createdAt, and every other project, as they were.
C4_UpdateFrame ==
  [][\A r \in pending :
       (r \notin pending' /\ r.op = "update"
        /\ resp'.op = "update" /\ resp'.status = 200)
       => /\ Len(projects') = Len(projects)
          /\ \E k \in Docs :
               /\ projects[k].id = r.id
               /\ projects'[k].name = r.body.name
               /\ projects'[k].schema = r.body.schema
               /\ projects'[k].updatedAt = r.now
               /\ projects'[k].id = projects[k].id
               /\ projects'[k].oid = projects[k].oid
               /\ projects'[k].schemaType = projects[k].schemaType
               /\ projects'[k].conversation = projects[k].conversation
               /\ projects'[k].createdAt = projects[k].createdAt
               /\ \A j \in Docs \ {k} : projects'[j] = projects[j]]_vars

\* C4 witness: an update was applied to one of two stored projects, whose
\* conversation is not empty.
C4_Witness ==
  /\ resp.op = "update" /\ resp.status = 200
  /\ Len(projects) = 2
  /\ projects[1].id # projects[2].id
  /\ \E k \in Docs :
       /\ projects[k].id = resp.id
       /\ writes[k].updated
       /\ projects[k].conversation # <<>>
       /\ projects[k].name # writes[k].create.body.name

\* C5: with the store answering, a read or an update of an id no create has
\* returned answers 404 and leaves the collection as it was; the stored ids
\* are exactly the ids successful creates returned, and none is ever removed.
C5_NotFoundNoUpsert ==
  [][/\ (/\ resp'.op \in {"read", "update"}
         /\ resp' # resp \/ pending' # pending
         /\ Len(resp'.calls) = 1 /\ resp'.calls[1].ok
         /\ resp'.id \notin Created)
        => (resp'.status = 404 /\ projects' = projects)
     /\ StoredIds' = Created'
     /\ StoredIds \subseteq StoredIds'
     /\ Len(projects') >= Len(projects)]_vars

\* C5 witness: an update of an id never created answered 404 while another
\* project is stored.
C5_Witness ==
  /\ resp.op = "update" /\ resp.status = 404
  /\ Len(projects) = 1
  /\ resp.id \notin StoredIds

\* C6: while project requests are served, no two stored projects have the
\* same id (the uniqueness constraint is in force whenever db is set).
C6_UniqueIds ==
  (pc = "listening" /\ db) =>
    \A j \in Docs, k \in Docs : j # k => projects[j].id # projects[k].id

\* C7: with the db handle unset, read, create and update answer 500 without a
\* store call; with the key or the client missing, chat answers 500 without a
\* model call; the server goes on listening.
C7_FailFast ==
  /\ (resp.op \in {"read", "create", "update"} /\ ~db)
       => (resp.status = 500 /\ resp.calls = <<>>)
  /\ ~db => (pending = {} /\ projects = <<>>)
  /\ (resp.op = "chat" /\ (~keySet \/ ~genAI))
       => (resp.status = 500 /\ resp.calls = <<>>)
  /\ resp.op # "none" => pc = "listening"

\* C7 witness: an update was refused for want of a store connection on a
\* server whose key is set and whose model client is missing.
C7_Witness ==
  /\ resp.op = "update" /\ resp.status = 500
  /\ ~db /\ keySet /\ ~genAI

\* The latest step was a status request whose ping was answered.
PingAnswered ==
  Len(resp.calls) = 1 /\ resp.calls[1].fn = "ping" /\ resp.calls[1].ok

\* C8 as stated: status answers 200 with server true, the model flag true
\* exactly when a chat request would pass both its checks, and the database
\* flag true exactly when the handle is set and the ping is answered.
C8_StatusLive ==
  resp.op = "status" =>
    /\ resp.status = 200
    /\ resp.body.server = TRUE
    /\ resp.body.gemini = (ChatGuard(keySet, genAI) = "ok")
    /\ resp.body.database = (db /\ PingAnswered)

\* C8 amended: status answers 200 with server true, the model flag true
\* exactly when the API key is set (whether or not the client exists), and
\* the database flag true exactly when the handle is set and the ping is
\* answered.
C8_StatusKey ==
  resp.op = "status" =>
    /\ resp.status = 200
    /\ resp.body.server = TRUE
    /\ resp.body.gemini = keySet
    /\ resp.body.database = (db /\ PingAnswered)
    /\ ~db => resp.calls = <<>>

\* C8 witness: status reported the model flag true and the database flag
\* false, the handle being set and the ping unanswered.
C8_Witness ==
  /\ resp.op = "status"
  /\ resp.body.gemini /\ ~resp.body.database
  /\ db /\ Len(resp.calls) = 1 /\ ~resp.calls[1].ok

\* C9: each stored project's name, schema and updatedAt are those of one
\* single request, the one last applied to it, and applying an update leaves
\* the projects stored under other ids as they were.
C9_AtomicWrites ==
  [][/\ \A k \in 1..Len(projects') :
          /\ projects'[k].name = writes'[k].last.name
          /\ projects'[k].schema = writes'[k].last.schema
          /\ projects'[k].updatedAt = writes'[k].last.now
     /\ \A r \in pending :
          (r \notin pending' /\ r.op = "update")
          => \A k \in Docs : projects[k].id # r.id => projects'[k] = projects[k]]_vars

\* C9 witness: an update was applied to a project while a second update of
\* the same id, with another body, is still in flight.
C9_Witness ==
  /\ resp.op = "update" /\ resp.status = 200
  /\ \E r \in pending :
       /\ r.op = "update" /\ r.id = resp.id
       /\ \E k \in Docs :
            /\ projects[k].id = r.id
            /\ writes[k].updated
            /\ projects[k].name # r.body.name
            /\ projects[k].schema # r.body.schema

\* C10 as stated: no store write lowers a project's updatedAt, and updatedAt
\* is never below createdAt.
C10_NeverBackwards ==
  [][\A k \in Docs :
       /\ projects'[k].updatedAt >= projects[k].updatedAt
       /\ projects'[k].updatedAt >= projects'[k].createdAt]_vars

\* C10 amended: a create stores updatedAt = createdAt = the time its request
\* read, an update stores the time its own request read before the write
\* and leaves createdAt alone, and no stored time is ahead of the clock.
C10_StampOfRequest ==
  [][/\ \A r \in pending :
          (r \notin pending' /\ r.op = "create" /\ resp'.status = 201)
          => /\ Len(projects') = Len(projects) + 1
             /\ projects'[Len(projects')].createdAt = r.now
             /\ projects'[Len(projects')].updatedAt = r.now
     /\ \A r \in pending :
          (r \notin pending' /\ r.op = "update" /\ resp'.status = 200)
          => \E k \in Docs :
               /\ projects[k].id = r.id
               /\ projects'[k].updatedAt = r.now
               /\ projects'[k].createdAt = projects[k].createdAt
     /\ \A k \in 1..Len(projects') :
          /\ projects'[k].updatedAt <= clock'
          /\ projects'[k].createdAt <= clock']_vars

\* C10 witness: an update stored a time older than the clock while another
\* update of the same id is in flight.
C10_Witness ==
  /\ resp.op = "update" /\ resp.status = 200
  /\ \E k \in Docs :
       /\ projects[k].id = resp.id
       /\ writes[k].updated
       /\ projects[k].createdAt <= projects[k].updatedAt
       /\ projects[k].updatedAt < clock
  /\ \E r \in pending : r.op = "update" /\ r.id = resp.id

====
